---- MODULE Spec2Model ----
(***************************************************************************)
(* Model of petronel's aggregation actor (src/src/petronel.rs): the        *)
(* Petronel handle, the PetronelFuture driver with its merged event        *)
(* stream, the boss table and the one-shot reply channels.                 *)
(*                                                                         *)
(* One step of the model is one iteration of the loop in                   *)
(* PetronelFuture::poll (one poll of the Select stream and the handling of *)
(* the event it yields), or one operation of the embedding program: a      *)
(* query through a handle, the clone or drop of a handle, the drop of an   *)
(* awaitable, the drop of the driver.                                      *)
(***************************************************************************)
EXTENDS Integers, Sequences, FiniteSets, TLC

\* ------------------------------------------------------------------ bounds
\* sightings the stream delivers in one run of the actor
MaxSightings == 2
\* sightings the stream delivers in one run of the table (SpecTable)
MaxPushes == 3
\* queries submitted in one run
MaxRequests == 2
\* handle clones alive at once
MaxHandles == 2
\* largest configured tweet_history_size
MaxCap == 2
\* tweet_history_size in the runs of the actor
ActorHistorySize == 1
\* read errors the sighting stream reports in one run
MaxStreamErrs == 1

\* ------------------------------------------------------------- input domains
BossNames == {"Lv60 X", "Y"}
Times == {1, 2}
Images == {"img1", "img2"}
Languages == {"English", "Japanese"}

\* Option::None of RaidBoss.image / RaidInfo.image
NoImage == "None"

DEFAULT_BOSS_LEVEL == 0

RaidTweet == [boss_name : BossNames, created_at : Times, language : Languages]
RaidInfo == [tweet : RaidTweet, image : Images \cup {NoImage}]

\* ------------------------------------------------------- raid::BossName
\* Option<BossLevel> as a sequence of length 0 or 1
parse_level(name) == IF name = "Lv60 X" THEN <<60>> ELSE <<>>

unwrap_or(opt, default) == IF opt = <<>> THEN default ELSE opt[1]

\* ------------------------------------------------------- circular_buffer
\* slots in physical order, and the index (0-based) of the next write
with_capacity(capacity) == [cap |-> capacity, buf |-> <<>>, next |-> 0]

push(cb, item) ==
  IF cb.cap = 0 THEN cb
  ELSE IF Len(cb.buf) < cb.cap
       THEN [cb EXCEPT !.buf = Append(@, item), !.next = (@ + 1) % cb.cap]
       ELSE [cb EXCEPT !.buf[cb.next + 1] = item, !.next = (@ + 1) % cb.cap]

as_unordered_slice(cb) == cb.buf

\* ------------------------------------------------------- the boss table
\* HashMap<BossName, RaidBossEntry>: a function whose domain is the keys
EmptyTable == [k \in {} |-> 0]

\* occupied, the sighting not pushed into the history
occupied_no_push(value, info) ==
  LET v1 == [value EXCEPT !.last_seen = info.tweet.created_at]
  IN IF v1.boss.image = NoImage /\ info.image # NoImage
     THEN [v1 EXCEPT !.boss.image = info.image]
     ELSE v1

\* occupied, the image of the sighting attached whenever it carries one
occupied_last_image(value, info) ==
  LET v1 == [value EXCEPT !.last_seen = info.tweet.created_at,
                          !.recent_tweets = push(@, info.tweet)]
  IN IF info.image # NoImage
     THEN [v1 EXCEPT !.boss.image = info.image]
     ELSE v1

\* occupied, last_seen never moved backwards
occupied_max_seen(value, info) ==
  LET v1 == [value EXCEPT !.last_seen = IF info.tweet.created_at > @
                                        THEN info.tweet.created_at ELSE @,
                          !.recent_tweets = push(@, info.tweet)]
  IN IF v1.boss.image = NoImage /\ info.image # NoImage
     THEN [v1 EXCEPT !.boss.image = info.image]
     ELSE v1

\* occupied, last_seen left as it was set at creation
occupied_keep_seen(value, info) ==
  LET v1 == [value EXCEPT !.recent_tweets = push(@, info.tweet)]
  IN IF v1.boss.image = NoImage /\ info.image # NoImage
     THEN [v1 EXCEPT !.boss.image = info.image]
     ELSE v1

\* occupied, a tweet already in the history not pushed again
occupied_dedup(value, info) ==
  LET v1 == [value EXCEPT !.last_seen = info.tweet.created_at,
                          !.recent_tweets =
                             IF \E i \in 1..Len(@.buf) : @.buf[i] = info.tweet
                             THEN @ ELSE push(@, info.tweet)]
  IN IF v1.boss.image = NoImage /\ info.image # NoImage
     THEN [v1 EXCEPT !.boss.image = info.image]
     ELSE v1

\* occupied, the language of the entry following the latest sighting
occupied_update_language(value, info) ==
  LET v1 == [value EXCEPT !.last_seen = info.tweet.created_at,
                          !.recent_tweets = push(@, info.tweet),
                          !.boss.language = info.tweet.language]
  IN IF v1.boss.image = NoImage /\ info.image # NoImage
     THEN [v1 EXCEPT !.boss.image = info.image]
     ELSE v1

\* Entry::Occupied: the entry of an existing boss after a sighting of it
occupied(value, info) ==
  LET v1 == [value EXCEPT !.last_seen = info.tweet.created_at,
                          !.recent_tweets = push(@, info.tweet)]
  IN IF v1.boss.image = NoImage /\ info.image # NoImage
     THEN [v1 EXCEPT !.boss.image = info.image]
     ELSE v1

\* vacant, the first sighting not pushed into the new history
vacant_no_push(name, size, info) ==
  [boss |-> [name |-> name,
             level |-> unwrap_or(parse_level(name), DEFAULT_BOSS_LEVEL),
             image |-> info.image,
             language |-> info.tweet.language],
   last_seen |-> info.tweet.created_at,
   recent_tweets |-> with_capacity(size)]

\* Entry::Vacant: the entry inserted for the first sighting of a boss
vacant(name, size, info) ==
  LET boss == [name |-> name,
               level |-> unwrap_or(parse_level(name), DEFAULT_BOSS_LEVEL),
               image |-> info.image,
               language |-> info.tweet.language]
  IN [boss |-> boss,
      last_seen |-> info.tweet.created_at,
      recent_tweets |-> push(with_capacity(size), info.tweet)]

\* handle_raid_info, a sighting skipped when no history is kept
handle_raid_info_skip_zero(bosses_, size, info) ==
  LET k == info.tweet.boss_name IN
  IF size = 0 THEN bosses_
  ELSE IF k \in DOMAIN bosses_
  THEN [bosses_ EXCEPT ![k] = occupied(@, info)]
  ELSE (k :> vacant(k, size, info)) @@ bosses_

\* handle_raid_info, the entry of a new boss replacing the table
handle_raid_info_replace(bosses_, size, info) ==
  LET k == info.tweet.boss_name IN
  IF k \in DOMAIN bosses_
  THEN [bosses_ EXCEPT ![k] = occupied(@, info)]
  ELSE (k :> vacant(k, size, info))

handle_raid_info(bosses_, size, info) ==
  LET k == info.tweet.boss_name IN
  IF k \in DOMAIN bosses_
  THEN [bosses_ EXCEPT ![k] = occupied(@, info)]
  ELSE (k :> vacant(k, size, info)) @@ bosses_

\* ------------------------------------------------------- oneshot channels
\* One channel per request, named by the request's index in reqs.
\*   tx    : "alive" (the Sender is inside a queued event), "used" (consumed
\*           by send) or "dropped" (dropped without a send)
\*   rx    : "held" by the caller inside its AsyncResult, or "dropped"
\*   value : <<>> or <<v>>, the value sitting in the channel
\*   sends : the number of Sender::send calls made on the channel
\*   at    : the number of sightings handled before the request was dequeued
\*           (-1 while it has not been dequeued)
oneshot_channel(kind_, name_) ==
  [kind |-> kind_, boss_name |-> name_, tx |-> "alive", rx |-> "held",
   value |-> <<>>, sends |-> 0, at |-> -1]

\* Sender::send: the value is stored unless the Receiver is gone, in which
\* case it is handed back (and dropped by the caller's `let _ =`).
oneshot_send(rq, id, v) ==
  IF rq[id].rx = "held"
  THEN [rq EXCEPT ![id].value = <<v>>, ![id].tx = "used", ![id].sends = @ + 1]
  ELSE [rq EXCEPT ![id].tx = "used", ![id].sends = @ + 1]

\* Drop of a Sender that was never used
oneshot_drop_tx(rq, id) == [rq EXCEPT ![id].tx = "dropped"]

\* AsyncResult::poll, what it returns: Receiver::poll with its Canceled error
\* mapped to Closed. A value in the channel is returned; without one the
\* poll fails once the Sender is gone (used or dropped) and is pending
\* otherwise.
AsyncResult_poll(r) ==
  IF r.value # <<>> THEN [t |-> "Ready", v |-> r.value[1]]
  ELSE IF r.tx # "alive" THEN [t |-> "Err", e |-> "Closed"]
  ELSE [t |-> "NotReady"]

\* AsyncResult::poll, what it leaves: Receiver::poll takes the value out of
\* the channel (value.take()), so a poll after the one that returned it
\* finds the channel empty and its Sender gone
oneshot_take(rq, id) == [rq EXCEPT ![id].value = <<>>]

\* Drop of the Receiver: a value still in the channel is dropped with it
oneshot_drop_rx(rq, id) == [rq EXCEPT ![id].rx = "dropped", ![id].value = <<>>]

\* ------------------------------------------------------- events
NewRaidInfo(info) == [type |-> "NewRaidInfo", info |-> info]
GetBosses(id) == [type |-> "GetBosses", sender |-> id]
GetRecentTweets(name, id) ==
  [type |-> "GetRecentTweets", boss_name |-> name, sender |-> id]
ReadError == [type |-> "ReadError"]

\* bosses_reply, the bosses without an image left out
bosses_reply_with_image(bosses_) ==
  {bosses_[k].boss : k \in {n \in DOMAIN bosses_ : bosses_[n].boss.image # NoImage}}

\* self.bosses.values().cloned().map(|e| e.boss).collect(): one RaidBoss per
\* key, in the map's unspecified order (a set here)
bosses_reply(bosses_) == {bosses_[k].boss : k \in DOMAIN bosses_}

\* self.bosses.get(&boss_name).map_or(vec![], ...)
backlog(bosses_, name) ==
  IF name \in DOMAIN bosses_
  THEN as_unordered_slice(bosses_[name].recent_tweets)
  ELSE <<>>

\* handle_event, a list-bosses query over an empty table left unanswered
handle_event_no_reply(bosses_, size, rq, event) ==
  CASE event.type = "NewRaidInfo" ->
         [bosses |-> handle_raid_info(bosses_, size, event.info), reqs |-> rq]
    [] event.type = "GetBosses" ->
         [bosses |-> bosses_,
          reqs |-> IF DOMAIN bosses_ = {}
                   THEN oneshot_drop_tx(rq, event.sender)
                   ELSE oneshot_send(rq, event.sender, bosses_reply(bosses_))]
    [] event.type = "GetRecentTweets" ->
         [bosses |-> bosses_,
          reqs |-> oneshot_send(rq, event.sender,
                                backlog(bosses_, event.boss_name))]
    [] event.type = "ReadError" ->
         [bosses |-> bosses_, reqs |-> rq]

\* handle_event, the query for the history of an unknown boss dropped
handle_event_unknown_dropped(bosses_, size, rq, event) ==
  CASE event.type = "NewRaidInfo" ->
         [bosses |-> handle_raid_info(bosses_, size, event.info), reqs |-> rq]
    [] event.type = "GetBosses" ->
         [bosses |-> bosses_,
          reqs |-> oneshot_send(rq, event.sender, bosses_reply(bosses_))]
    [] event.type = "GetRecentTweets" ->
         [bosses |-> bosses_,
          reqs |-> IF event.boss_name \in DOMAIN bosses_
                   THEN oneshot_send(rq, event.sender,
                                     backlog(bosses_, event.boss_name))
                   ELSE oneshot_drop_tx(rq, event.sender)]
    [] event.type = "ReadError" ->
         [bosses |-> bosses_, reqs |-> rq]

\* handle_event, the query for the history of an unknown boss leaving an
\* empty entry for it
handle_event_creates_entry(bosses_, size, rq, event) ==
  CASE event.type = "NewRaidInfo" ->
         [bosses |-> handle_raid_info(bosses_, size, event.info), reqs |-> rq]
    [] event.type = "GetBosses" ->
         [bosses |-> bosses_,
          reqs |-> oneshot_send(rq, event.sender, bosses_reply(bosses_))]
    [] event.type = "GetRecentTweets" ->
         [bosses |-> IF event.boss_name \in DOMAIN bosses_ THEN bosses_
                     ELSE (event.boss_name :>
                             [boss |-> [name |-> event.boss_name,
                                        level |-> DEFAULT_BOSS_LEVEL,
                                        image |-> NoImage,
                                        language |-> "Other"],
                              last_seen |-> 0,
                              recent_tweets |-> with_capacity(size)])
                          @@ bosses_,
          reqs |-> oneshot_send(rq, event.sender,
                                backlog(bosses_, event.boss_name))]
    [] event.type = "ReadError" ->
         [bosses |-> bosses_, reqs |-> rq]

\* handle_event, the table dropped on a read error of the mailbox
handle_event_read_error_resets(bosses_, size, rq, event) ==
  CASE event.type = "NewRaidInfo" ->
         [bosses |-> handle_raid_info(bosses_, size, event.info), reqs |-> rq]
    [] event.type = "GetBosses" ->
         [bosses |-> bosses_,
          reqs |-> oneshot_send(rq, event.sender, bosses_reply(bosses_))]
    [] event.type = "GetRecentTweets" ->
         [bosses |-> bosses_,
          reqs |-> oneshot_send(rq, event.sender,
                                backlog(bosses_, event.boss_name))]
    [] event.type = "ReadError" ->
         [bosses |-> EmptyTable, reqs |-> rq]

\* PetronelFuture::handle_event: the table and the channels after the event
handle_event(bosses_, size, rq, event) ==
  CASE event.type = "NewRaidInfo" ->
         [bosses |-> handle_raid_info(bosses_, size, event.info), reqs |-> rq]
    [] event.type = "GetBosses" ->
         [bosses |-> bosses_,
          reqs |-> oneshot_send(rq, event.sender, bosses_reply(bosses_))]
    [] event.type = "GetRecentTweets" ->
         [bosses |-> bosses_,
          reqs |-> oneshot_send(rq, event.sender,
                                backlog(bosses_, event.boss_name))]
    [] event.type = "ReadError" ->
         [bosses |-> bosses_, reqs |-> rq]

\* ------------------------------------------------------- the merged stream
\* What the sighting stream S answers to one poll
Ready(info) == [t |-> "Item", info |-> info]
NotReady == [t |-> "NotReady"]
StreamEnd == [t |-> "None"]
StreamErr == [t |-> "Err"]

\* stream.map(Event::NewRaidInfo): items become events, the rest passes
stream_events(r) ==
  IF r.t = "Item" THEN [t |-> "Some", event |-> NewRaidInfo(r.info)] ELSE r

\* rx_poll, the end reported as soon as every sender is gone
rx_poll_closed_first(q, nsenders) ==
  IF nsenders = 0 THEN [res |-> StreamEnd, queue |-> q]
  ELSE IF q # <<>>
  THEN [res |-> [t |-> "Some", event |-> Head(q)], queue |-> Tail(q)]
  ELSE [res |-> NotReady, queue |-> q]

\* rx_poll, the newest queued event taken first
rx_poll_newest(q, nsenders) ==
  IF q # <<>>
  THEN [res |-> [t |-> "Some", event |-> q[Len(q)]],
        queue |-> SubSeq(q, 1, Len(q) - 1)]
  ELSE IF nsenders = 0 THEN [res |-> StreamEnd, queue |-> q]
  ELSE [res |-> NotReady, queue |-> q]

\* UnboundedReceiver::poll: the oldest queued event; None once the queue is
\* empty and every sender is gone; NotReady otherwise. It never fails, so
\* or_else(events_read_error) never produces a ReadError.
rx_poll(q, nsenders) ==
  IF q # <<>> THEN [res |-> [t |-> "Some", event |-> Head(q)], queue |-> Tail(q)]
  ELSE IF nsenders = 0 THEN [res |-> StreamEnd, queue |-> q]
  ELSE [res |-> NotReady, queue |-> q]

\* Fuse::poll: a stream that has ended is not polled again
Fuse_poll(done, res) == IF done THEN StreamEnd ELSE res

\* Select_poll without the flag: the sighting stream is always polled first
Select_poll_stream_first(fl0, d1, d2, q, nsenders, r) ==
  LET fl == FALSE IN
  LET m == rx_poll(q, nsenders)
      p1 == Fuse_poll(d1, stream_events(r))
      p2 == Fuse_poll(d2, m.res)
      q2 == IF d2 THEN q ELSE m.queue
      a == IF fl THEN p2 ELSE p1
      b == IF fl THEN p1 ELSE p2
      \* the state of the two streams after a poll of the first only, of both
      onlyA == [polled1 |-> ~fl /\ ~d1,
                s1done |-> IF fl THEN d1 ELSE d1 \/ p1.t = "None",
                s2done |-> IF fl THEN d2 \/ p2.t = "None" ELSE d2,
                queue |-> IF fl THEN q2 ELSE q]
      both == [polled1 |-> ~d1,
               s1done |-> d1 \/ p1.t = "None",
               s2done |-> d2 \/ p2.t = "None",
               queue |-> q2]
      a_done == a.t = "None"
  IN CASE a.t = "Err" -> [out |-> a, flag |-> FALSE] @@ onlyA
       [] a.t = "Some" -> [out |-> a, flag |-> FALSE] @@ onlyA
       [] b.t = "Err" -> [out |-> b, flag |-> FALSE] @@ both
       [] b.t = "Some" ->
            [out |-> b, flag |-> FALSE] @@ both
       [] b.t = "None" /\ a_done -> [out |-> StreamEnd, flag |-> FALSE] @@ both
       [] OTHER -> [out |-> NotReady, flag |-> FALSE] @@ both

\* Select::poll. fl is the flag (TRUE: the mailbox goes first), d1 and d2 the
\* Fuse flags of the sighting stream and of the mailbox, r what the sighting
\* stream answers if it is polled (polled1 tells whether it was).
Select_poll(fl, d1, d2, q, nsenders, r) ==
  LET m == rx_poll(q, nsenders)
      p1 == Fuse_poll(d1, stream_events(r))
      p2 == Fuse_poll(d2, m.res)
      q2 == IF d2 THEN q ELSE m.queue
      a == IF fl THEN p2 ELSE p1
      b == IF fl THEN p1 ELSE p2
      \* the state of the two streams after a poll of the first only, of both
      onlyA == [polled1 |-> ~fl /\ ~d1,
                s1done |-> IF fl THEN d1 ELSE d1 \/ p1.t = "None",
                s2done |-> IF fl THEN d2 \/ p2.t = "None" ELSE d2,
                queue |-> IF fl THEN q2 ELSE q]
      both == [polled1 |-> ~d1,
               s1done |-> d1 \/ p1.t = "None",
               s2done |-> d2 \/ p2.t = "None",
               queue |-> q2]
      a_done == a.t = "None"
  IN CASE a.t = "Err" -> [out |-> a, flag |-> ~fl] @@ onlyA
       [] a.t = "Some" -> [out |-> a, flag |-> ~fl] @@ onlyA
       [] b.t = "Err" -> [out |-> b, flag |-> ~fl] @@ both
       [] b.t = "Some" ->
            [out |-> b, flag |-> IF a_done THEN ~fl ELSE fl] @@ both
       [] b.t = "None" /\ a_done -> [out |-> StreamEnd, flag |-> ~fl] @@ both
       [] OTHER -> [out |-> NotReady, flag |-> ~fl] @@ both

\* ------------------------------------------------------- state
VARIABLES
  bosses,              \* PetronelFuture.bosses
  tweet_history_size,  \* PetronelFuture.tweet_history_size
  flag,                \* Select.flag
  s1done,              \* Select.stream1 (Fuse): the sighting stream has ended
  s2done,              \* Select.stream2 (Fuse): the mailbox has ended
  queue,               \* the events queued in the mpsc channel
  handles,             \* the number of Petronel handles (senders) alive
  driver,              \* "Running", "Terminated" (Ok), "Failed" (Err), "Dropped"
  reqs,                \* the oneshot channel of each request, by index
  log,                 \* the sightings handled so far, in order
  stream_errs          \* the read errors the sighting stream has reported

vars == <<bosses, tweet_history_size, flag, s1done, s2done, queue, handles,
          driver, reqs, log, stream_errs>>

\* Petronel::from_stream
from_stream(size) ==
  /\ bosses = EmptyTable
  /\ tweet_history_size = size
  /\ flag = FALSE
  /\ s1done = FALSE
  /\ s2done = FALSE
  /\ queue = <<>>
  /\ handles = 1
  /\ driver = "Running"
  /\ reqs = <<>>
  /\ log = <<>>
  /\ stream_errs = 0

\* ------------------------------------------------------- operations
\* request, the event kept although the send failed
request_keep(rq, q, rxAlive, kind_, name_) ==
  LET id == Len(rq) + 1
      ev == IF kind_ = "GetBosses" THEN GetBosses(id)
            ELSE GetRecentTweets(name_, id)
  IN [reqs |-> Append(rq, oneshot_channel(kind_, name_)),
      queue |-> IF rxAlive THEN Append(q, ev) ELSE q]

\* Petronel::request: a fresh oneshot channel, its Sender sent inside the
\* event; a failed send (the receiver is gone) drops the event and the Sender.
request(rq, q, rxAlive, kind_, name_) ==
  LET id == Len(rq) + 1
      ev == IF kind_ = "GetBosses" THEN GetBosses(id)
            ELSE GetRecentTweets(name_, id)
      rq1 == Append(rq, oneshot_channel(kind_, name_))
  IN IF rxAlive
     THEN [reqs |-> rq1, queue |-> Append(q, ev)]
     ELSE [reqs |-> oneshot_drop_tx(rq1, id), queue |-> q]

\* Petronel::bosses and Petronel::recent_tweets, while fewer than `most`
\* queries were submitted
Ask(most, kind_, names) ==
  /\ handles > 0
  /\ Len(reqs) < most
  /\ \E name \in names :
       LET s == request(reqs, queue, driver # "Dropped", kind_, name) IN
         /\ reqs' = s.reqs
         /\ queue' = s.queue
  /\ UNCHANGED <<bosses, tweet_history_size, flag, s1done, s2done, handles,
                 driver, log, stream_errs>>

\* Petronel::clone (derived)
CloneHandle ==
  /\ handles > 0
  /\ handles < MaxHandles
  /\ handles' = handles + 1
  /\ UNCHANGED <<bosses, tweet_history_size, flag, s1done, s2done, queue,
                 driver, reqs, log, stream_errs>>

\* drop of a Petronel handle
DropHandle ==
  /\ handles > 0
  /\ handles' = handles - 1
  /\ UNCHANGED <<bosses, tweet_history_size, flag, s1done, s2done, queue,
                 driver, reqs, log, stream_errs>>

\* The caller polls an awaitable it holds: AsyncResult::poll returns
\* AsyncResult_poll(reqs[id]) and takes the value if there is one
PollAsyncResult ==
  /\ \E id \in 1..Len(reqs) :
       /\ reqs[id].rx = "held"
       /\ reqs' = oneshot_take(reqs, id)
  /\ UNCHANGED <<bosses, tweet_history_size, flag, s1done, s2done, queue,
                 handles, driver, log, stream_errs>>

\* DropAsyncResult, the discard cancelling the queued query
DropAsyncResult_cancel ==
  /\ \E id \in 1..Len(reqs) :
       /\ reqs[id].rx = "held"
       /\ reqs' = [oneshot_drop_rx(reqs, id) EXCEPT
                     ![id].tx = IF @ = "alive" THEN "dropped" ELSE @]
       /\ queue' = SelectSeq(queue, LAMBDA e : e.sender # id)
  /\ UNCHANGED <<bosses, tweet_history_size, flag, s1done, s2done,
                 handles, driver, log, stream_errs>>

\* The caller drops an awaitable it holds, pending or resolved, polled or
\* not: the oneshot Receiver goes, and nothing is sent to the loop
DropAsyncResult ==
  /\ \E id \in 1..Len(reqs) :
       /\ reqs[id].rx = "held"
       /\ reqs' = oneshot_drop_rx(reqs, id)
  /\ UNCHANGED <<bosses, tweet_history_size, flag, s1done, s2done, queue,
                 handles, driver, log, stream_errs>>

\* The senders of the events of a queue, dropped with it
RECURSIVE drop_events(_, _)
drop_events(rq, q) ==
  IF q = <<>> THEN rq
  ELSE drop_events(IF "sender" \in DOMAIN Head(q)
                   THEN oneshot_drop_tx(rq, Head(q).sender) ELSE rq,
                   Tail(q))

\* The PetronelFuture is dropped, running or finished: the mpsc receiver goes
\* with it, and with the receiver every event still queued.
DropDriver ==
  /\ driver # "Dropped"
  /\ driver' = "Dropped"
  /\ reqs' = drop_events(reqs, queue)
  /\ queue' = <<>>
  /\ UNCHANGED <<bosses, tweet_history_size, flag, s1done, s2done, handles,
                 log, stream_errs>>

\* What the sighting stream may answer to a poll: an item of `infos` while
\* fewer than `most` sightings were handled, a read error while it has
\* reported fewer than MaxStreamErrs, or one of `others`
StreamPolls(infos, most, others) ==
  (others \ {StreamErr})
  \cup (IF Len(log) < most THEN {Ready(i) : i \in infos} ELSE {})
  \cup (IF stream_errs < MaxStreamErrs THEN others \cap {StreamErr} ELSE {})

\* One iteration of the loop of PetronelFuture::poll, the sighting stream
\* answering r if Select polls it; the handled sighting is appended to the
\* history of the run if `record`
poll(r, record) ==
  LET s == Select_poll(flag, s1done, s2done, queue, handles, r) IN
    /\ flag' = s.flag
    /\ s1done' = s.s1done
    /\ s2done' = s.s2done
    /\ queue' = s.queue
    /\ stream_errs' = IF s.polled1 /\ r.t = "Err"
                      THEN stream_errs + 1 ELSE stream_errs
    /\ CASE s.out.t = "Some" ->
              LET h == handle_event(bosses, tweet_history_size, reqs,
                                    s.out.event)
              IN /\ bosses' = h.bosses
                 /\ reqs' = IF "sender" \in DOMAIN s.out.event
                            THEN [h.reqs EXCEPT ![s.out.event.sender].at =
                                                   Len(log)]
                            ELSE h.reqs
                 /\ log' = IF s.out.event.type = "NewRaidInfo" /\ record
                           THEN Append(log, s.out.event.info) ELSE log
                 /\ driver' = driver
         [] s.out.t = "None" ->
              /\ driver' = "Terminated"
              /\ UNCHANGED <<bosses, reqs, log>>
         [] s.out.t = "Err" ->
              /\ driver' = "Failed"
              /\ UNCHANGED <<bosses, reqs, log>>
         [] OTHER ->
              UNCHANGED <<bosses, reqs, log, driver>>
    /\ UNCHANGED <<tweet_history_size, handles>>

\* ------------------------------------------------------- the actor
\* Every operation, over a sighting stream that carries two bosses in turn,
\* starting with either: the next sighting is not of the boss handled last
ActorPool ==
  { [tweet |-> [boss_name |-> "Lv60 X", created_at |-> 1, language |-> "English"],
     image |-> NoImage],
    [tweet |-> [boss_name |-> "Y", created_at |-> 1, language |-> "Japanese"],
     image |-> NoImage] }

ActorInfos ==
  IF log = <<>> THEN ActorPool ELSE ActorPool \ {log[Len(log)]}

Poll ==
  /\ driver = "Running"
  /\ \E r \in StreamPolls(ActorInfos, MaxSightings,
                          {NotReady, StreamEnd, StreamErr}) : poll(r, TRUE)

Bosses == Ask(MaxRequests, "GetBosses", {""})

RecentTweets == Ask(MaxRequests, "GetRecentTweets", {"Lv60 X"})

Init == from_stream(ActorHistorySize)

Next ==
  \/ Poll
  \/ Bosses
  \/ RecentTweets
  \/ CloneHandle
  \/ DropHandle
  \/ PollAsyncResult
  \/ DropAsyncResult
  \/ DropDriver

Spec == Init /\ [][Next]_vars

\* ------------------------------------------------------- the fair actor
\* The actor with a sighting stream that can answer every poll with an item,
\* no history of the run or of a boss kept, and a driver that is polled while it is
\* running and dropped by its executor once it has failed (a task is polled
\* until it completes and a completed future is dropped, as core.run does).
FairInfos ==
  { [tweet |-> [boss_name |-> "Lv60 X", created_at |-> t, language |-> "English"],
     image |-> NoImage] : t \in Times }

PollFair ==
  /\ driver = "Running"
  /\ \E r \in StreamPolls(FairInfos, MaxSightings,
                          {NotReady, StreamEnd, StreamErr}) : poll(r, FALSE)

DropFailed == driver = "Failed" /\ DropDriver

InitFair == from_stream(0)

NextFair ==
  \/ PollFair
  \/ Bosses
  \/ RecentTweets
  \/ CloneHandle
  \/ DropHandle
  \/ PollAsyncResult
  \/ DropAsyncResult
  \/ DropDriver

SpecFair ==
  InitFair /\ [][NextFair]_vars /\ WF_vars(PollFair) /\ WF_vars(DropFailed)

\* ------------------------------------------------------- the table
\* Runs of sightings with one query at any point, its awaitable polled or
\* dropped at any point, every history size, the driver kept running and the
\* handle kept. The sightings: every time and
\* image in English for "Lv60 X", one Japanese sighting for each boss.
TableInfos ==
  {i \in RaidInfo :
     /\ i.tweet.language = "Japanese" =>
          i.tweet.created_at = 2 /\ i.image = NoImage
     /\ i.tweet.boss_name = "Y" => i.tweet.language = "Japanese"}

PollTable ==
  /\ driver = "Running"
  /\ \E r \in StreamPolls(TableInfos, MaxPushes, {NotReady}) : poll(r, TRUE)

BossesTable == Ask(1, "GetBosses", {""})

RecentTweetsTable == Ask(1, "GetRecentTweets", BossNames)

InitTable == \E size \in 0..MaxCap : from_stream(size)

NextTable ==
  \/ PollTable
  \/ BossesTable
  \/ RecentTweetsTable
  \/ PollAsyncResult
  \/ DropAsyncResult

SpecTable == InitTable /\ [][NextTable]_vars

\* ------------------------------------------------------- properties
\* The table after the sightings of l, handled in order
RECURSIVE Replay(_, _)
Replay(l, size) ==
  IF l = <<>> THEN EmptyTable
  ELSE handle_raid_info(Replay(SubSeq(l, 1, Len(l) - 1), size), size, l[Len(l)])

\* The reply a query of request record r gets from table t
Answer(r, t) ==
  IF r.kind = "GetBosses" THEN bosses_reply(t) ELSE backlog(t, r.boss_name)

Ids == 1..Len(reqs)

\* The requests whose event is in the queue
Queued == {queue[i].sender : i \in 1..Len(queue)}

Closed == [t |-> "Err", e |-> "Closed"]

\* C1: a read error of the sighting stream is a no-op for the loop; the
\* driver does not finish with an error.
C1_ReadErrorIsNoOp == stream_errs > 0 => driver # "Failed"

\* The driver finished with the read error of the sighting stream, with a
\* table to serve and a query left unanswered in its mailbox
C1_Witness ==
  /\ driver = "Failed"
  /\ stream_errs = 1
  /\ DOMAIN bosses # {}
  /\ queue # <<>>

\* C2: once the driver is dropped, the mailbox is empty and no awaitable is
\* pending: every request whose awaitable is held either was answered before
\* the drop (its Sender used by the one send) or was never sent a reply, has
\* no value and resolves with Closed.
C2_ClosedAfterDrop ==
  driver = "Dropped" =>
    /\ queue = <<>>
    /\ \A id \in Ids :
         reqs[id].rx = "held" =>
           /\ AsyncResult_poll(reqs[id]).t # "NotReady"
           /\ \/ /\ reqs[id].tx = "used"
                 /\ reqs[id].sends = 1
                 /\ reqs[id].at >= 0
              \/ /\ reqs[id].tx = "dropped"
                 /\ AsyncResult_poll(reqs[id]) = Closed
                 /\ reqs[id].sends = 0
                 /\ reqs[id].at = -1

\* A dropped driver, one query answered before the drop and one closed
C2_Witness ==
  /\ driver = "Dropped"
  /\ handles > 0
  /\ \E i, j \in Ids :
       /\ reqs[i].rx = "held" /\ AsyncResult_poll(reqs[i]).t = "Ready"
       /\ reqs[j].rx = "held" /\ AsyncResult_poll(reqs[j]) = Closed

\* C3: every request is in the mailbox at most once, and exactly while its
\* Sender is alive; the loop calls send exactly once on the channel of a
\* request it has dequeued and never on another one. The step of that send
\* puts the value in the channel if the awaitable is held (the reply to a
\* discarded awaitable is handed back and dropped), and no other step puts a
\* value in a channel: once the caller has taken it, none comes again.
C3_ExactlyOneReply ==
  [][ /\ \A i, j \in 1..Len(queue) : queue[i].sender = queue[j].sender => i = j
      /\ \A id \in Ids :
           /\ (id \in Queued) <=> (reqs[id].tx = "alive")
           /\ reqs[id].sends <= 1
           /\ (reqs[id].at >= 0) <=> (reqs[id].sends = 1)
           /\ (reqs[id].at >= 0) <=> (reqs[id].tx = "used")
           /\ (reqs[id].value # <<>>) => (reqs[id].sends = 1)
           /\ reqs'[id].sends <= 1
           /\ (reqs'[id].sends > reqs[id].sends /\ reqs[id].rx = "held") =>
                reqs'[id].value # <<>>
           /\ (reqs'[id].value # <<>> /\ reqs[id].value = <<>>) =>
                reqs'[id].sends > reqs[id].sends
    ]_vars

\* Two queries of different kinds, both dequeued and answered
C3_Witness ==
  \E i, j \in Ids :
    /\ reqs[i].kind = "GetBosses" /\ reqs[i].value # <<>>
    /\ reqs[j].kind = "GetRecentTweets" /\ reqs[j].value # <<>>

\* C4: the table is the result of the sightings handled so far, each applied
\* whole (a boss in the table has its first sighting in a history of
\* non-zero capacity), and the value of every reply is the one computed from
\* the table of exactly the sightings handled before the query was dequeued.
C4_ReplyFromTableAtDequeue ==
  /\ bosses = Replay(log, tweet_history_size)
  /\ \A k \in DOMAIN bosses :
       tweet_history_size > 0 =>
         as_unordered_slice(bosses[k].recent_tweets) # <<>>
  /\ \A id \in Ids :
       reqs[id].value # <<>> =>
         /\ reqs[id].at \in 0..Len(log)
         /\ reqs[id].value[1] =
              Answer(reqs[id],
                     Replay(SubSeq(log, 1, reqs[id].at), tweet_history_size))

\* A reply that shows the first sighting and not the second one
C4_Witness ==
  \E id \in Ids :
    /\ reqs[id].value # <<>>
    /\ reqs[id].at = 1
    /\ Len(log) = 2
    /\ reqs[id].value[1] # Answer(reqs[id], bosses)
    /\ reqs[id].value[1] # Answer(reqs[id], EmptyTable)

\* C5: while the sighting stream or the mailbox is open, the loop of a
\* driver that has not been dropped is running.
C5_RunningWhileOpen ==
  (driver # "Dropped" /\ (~s1done \/ handles > 0)) => driver = "Running"

\* The driver stopped by the read error of the sighting stream while a
\* handle is alive and neither the stream nor the mailbox has ended
C5_Witness ==
  /\ driver = "Failed"
  /\ handles > 0
  /\ ~s1done
  /\ ~s2done

\* The boss identifiers of the sightings of l
Names(l) == {l[i].tweet.boss_name : i \in 1..Len(l)}

\* The sightings of l for boss k, in order
Sightings(k, l) == SelectSeq(l, LAMBDA i : i.tweet.boss_name = k)

\* The tweets pushed for boss k by the sightings of l, in order
Pushed(k, l) == [j \in 1..Len(Sightings(k, l)) |-> Sightings(k, l)[j].tweet]

Range(f) == {f[i] : i \in DOMAIN f}

Count(f, x) == Cardinality({i \in DOMAIN f : f[i] = x})

\* The same items the same number of times, in any order
SameItems(f, g) ==
  /\ Len(f) = Len(g)
  /\ \A x \in Range(f) \cup Range(g) : Count(f, x) = Count(g, x)

LastN(f, n) == SubSeq(f, Len(f) - n + 1, Len(f))

Min(a, b) == IF a < b THEN a ELSE b

\* snap holds the min(capacity, pushes) most recent of the tweets pushed
IsRecent(snap, pushed) ==
  LET n == Min(tweet_history_size, Len(pushed))
  IN Len(snap) = n /\ SameItems(snap, LastN(pushed, n))

\* C6: for every history size and every run of sightings, the history of each
\* boss, and every recent-history reply as of the sightings handled before
\* it, holds exactly the min(C, n) most recent of the n tweets pushed for
\* the boss, in some order.
C6_SnapshotIsMostRecent ==
  /\ \A k \in DOMAIN bosses :
       IsRecent(as_unordered_slice(bosses[k].recent_tweets), Pushed(k, log))
  /\ \A id \in Ids :
       (reqs[id].kind = "GetRecentTweets" /\ reqs[id].value # <<>>) =>
         IsRecent(reqs[id].value[1],
                  Pushed(reqs[id].boss_name, SubSeq(log, 1, reqs[id].at)))

\* Capacity 2, three different tweets S1, S2, S3 pushed for one boss, and a
\* reply holding S2 and S3 without S1
C6_Witness ==
  /\ tweet_history_size = 2
  /\ \E id \in Ids :
       /\ reqs[id].kind = "GetRecentTweets"
       /\ reqs[id].value # <<>>
       /\ reqs[id].at = 3
       /\ Len(Pushed(reqs[id].boss_name, log)) = 3
       /\ Cardinality(Range(Pushed(reqs[id].boss_name, log))) = 3
       /\ Range(reqs[id].value[1]) = {log[2].tweet, log[3].tweet}

\* C7: the table has exactly one entry per boss identifier seen so far, and
\* a list-bosses reply holds exactly one Boss record per identifier seen
\* before it, K records with K different names.
C7_OneEntryPerBoss ==
  /\ DOMAIN bosses = Names(log)
  /\ \A k \in DOMAIN bosses : bosses[k].boss.name = k
  /\ \A id \in Ids :
       (reqs[id].kind = "GetBosses" /\ reqs[id].value # <<>>) =>
         LET seen == Names(SubSeq(log, 1, reqs[id].at))
             reply == reqs[id].value[1]
         IN /\ Cardinality(reply) = Cardinality(seen)
            /\ {b.name : b \in reply} = seen

\* A list-bosses reply with 2 records after 3 sightings of 2 bosses
C7_Witness ==
  \E id \in Ids :
    /\ reqs[id].kind = "GetBosses"
    /\ reqs[id].value # <<>>
    /\ reqs[id].at = 3
    /\ Cardinality(reqs[id].value[1]) = 2

\* The images the sightings of l carry for boss k, in order
ImagesSeen(k, l) ==
  SelectSeq([j \in 1..Len(Sightings(k, l)) |-> Sightings(k, l)[j].image],
            LAMBDA i : i # NoImage)

\* C8: the image of an entry is the image of the first sighting of the boss
\* that carried one, whatever the later sightings carry, and none while no
\* sighting of the boss carried one.
C8_FirstImageWins ==
  \A k \in DOMAIN bosses :
    bosses[k].boss.image =
      IF ImagesSeen(k, log) = <<>> THEN NoImage ELSE ImagesSeen(k, log)[1]

\* An entry created without an image that took the image of a later
\* sighting and kept it through a sighting with another image
C8_Witness ==
  \E k \in DOMAIN bosses :
    /\ Len(Sightings(k, log)) = 3
    /\ Sightings(k, log)[1].image = NoImage
    /\ Sightings(k, log)[2].image = "img1"
    /\ Sightings(k, log)[3].image = "img2"
    /\ bosses[k].boss.image = "img1"

\* C9: the step that dequeues a recent-history query whose boss is not in
\* the table answers it with the empty sequence as a value: the awaitable,
\* if held, is then ready with <<>>, neither failed nor pending.
C9_UnknownBossIsEmpty ==
  [][ \A id \in Ids :
        ( /\ reqs[id].kind = "GetRecentTweets"
          /\ reqs[id].at < 0
          /\ reqs'[id].at >= 0
          /\ reqs[id].boss_name \notin DOMAIN bosses
          /\ reqs[id].rx = "held" ) =>
        AsyncResult_poll(reqs'[id]) = [t |-> "Ready", v |-> <<>>] ]_vars

\* A recent-history query for a boss not in a table that has another boss
C9_Witness ==
  \E id \in Ids :
    /\ reqs[id].kind = "GetRecentTweets"
    /\ reqs[id].at = 1
    /\ reqs[id].boss_name \notin Names(SubSeq(log, 1, 1))
    /\ reqs[id].rx = "held"
    /\ AsyncResult_poll(reqs[id]).t = "Ready"

Max(S) == CHOOSE x \in S : \A y \in S : y <= x

\* The timestamps of the sightings of l for boss k, in order
Stamps(k, l) == [j \in 1..Len(Pushed(k, l)) |-> Pushed(k, l)[j].created_at]

\* C10 (as stated): last-seen of an entry is the greatest timestamp among the
\* sightings handled for its boss.
C10_LastSeenIsGreatest ==
  \A k \in DOMAIN bosses : bosses[k].last_seen = Max(Range(Stamps(k, log)))

\* C10 (amended): last-seen of an entry is the timestamp of the sighting
\* handled last for its boss; it is the greatest timestamp seen when the
\* sightings of the boss arrived in non-decreasing timestamp order.
C10_LastSeenIsLatestHandled ==
  \A k \in DOMAIN bosses :
    LET ts == Stamps(k, log) IN
      /\ bosses[k].last_seen = ts[Len(ts)]
      /\ (\A i, j \in 1..Len(ts) : i <= j => ts[i] <= ts[j]) =>
           bosses[k].last_seen = Max(Range(ts))

\* Sightings of one boss out of timestamp order: last-seen moved backwards
C10_Witness ==
  \E k \in DOMAIN bosses :
    /\ Len(Stamps(k, log)) >= 2
    /\ Stamps(k, log)[1] = 2
    /\ bosses[k].last_seen = 1

\* The boss identifiers of a list-bosses reply
ReplyNames(id) == {b.name : b \in reqs[id].value[1]}

\* C11: no entry is ever removed from the table, and of two list-bosses
\* replies the one computed later (after at least as many sightings) lists
\* every boss identifier the earlier one lists; every identifier a reply
\* lists is still in the table.
C11_ViewOnlyAdvances ==
  /\ Names(log) \subseteq DOMAIN bosses
  /\ \A i, j \in Ids :
       ( /\ reqs[i].kind = "GetBosses" /\ reqs[i].value # <<>>
         /\ reqs[j].kind = "GetBosses" /\ reqs[j].value # <<>>
         /\ reqs[i].at <= reqs[j].at ) =>
         /\ ReplyNames(i) \subseteq ReplyNames(j)
         /\ ReplyNames(j) \subseteq DOMAIN bosses

\* Two list-bosses replies, the later one with a boss more, and handles left
C11_Witness ==
  \E i, j \in Ids :
    /\ reqs[i].kind = "GetBosses" /\ reqs[i].value # <<>>
    /\ reqs[j].kind = "GetBosses" /\ reqs[j].value # <<>>
    /\ ReplyNames(i) # {}
    /\ ReplyNames(i) # ReplyNames(j)
    /\ reqs[i].at < reqs[j].at

\* C12: the mailbox holds the queued requests in the order of their
\* submission (the order of their indices), whichever handle submitted them;
\* a request is dequeued only after every request submitted to the mailbox
\* before it, and after no fewer sightings.
C12_MailboxIsFifo ==
  /\ \A i, j \in 1..Len(queue) : i < j => queue[i].sender < queue[j].sender
  /\ \A i, j \in Ids :
       (i < j /\ reqs[j].at >= 0) =>
         /\ reqs[i].at >= 0
         /\ reqs[i].at <= reqs[j].at
         /\ reqs[i].sends = 1
  /\ \A i \in Ids : \A n \in 1..Len(queue) :
       reqs[i].at >= 0 => i < queue[n].sender

\* Two requests answered in the order of their submission, a sighting
\* handled between them, while two handles are alive
C12_Witness ==
  /\ handles = 2
  /\ Len(reqs) = 2
  /\ reqs[1].value # <<>>
  /\ reqs[2].value # <<>>
  /\ reqs[1].at < reqs[2].at

\* The awaitable of request id is resolved (or was discarded by its caller)
Resolved(id) ==
  /\ id \in Ids
  /\ \/ reqs[id].rx # "held"
     \/ AsyncResult_poll(reqs[id]).t # "NotReady"

\* C13: with the driver polled while it runs and dropped once it has failed,
\* every submitted query eventually resolves with its reply or with Closed,
\* also when the sighting stream has an item ready at every poll.
C13_EveryQueryResolves ==
  \A id \in 1..MaxRequests : (id \in Ids) ~> Resolved(id)

\* A query answered with its value by a running driver whose sighting
\* stream has not ended, after a sighting, and a query resolved with Closed
C13_Witness ==
  /\ ~s1done
  /\ "Lv60 X" \in DOMAIN bosses
  /\ \E id \in Ids : /\ reqs[id].kind = "GetBosses"
                     /\ reqs[id].value # <<>>
                     /\ reqs[id].value[1] # {}
  /\ \E id \in Ids : AsyncResult_poll(reqs[id]).t = "Err"

\* C14: with history capacity 0 the loop keeps running, every boss seen has
\* its entry with the last-seen of its latest sighting and the first image
\* seen, the history of every entry stays empty, every recent-history reply
\* is the empty sequence and every list-bosses reply lists the bosses seen
\* before it.
C14_ZeroCapacityDiscards ==
  tweet_history_size = 0 =>
    /\ driver = "Running"
    /\ DOMAIN bosses = Names(log)
    /\ \A k \in DOMAIN bosses :
         /\ as_unordered_slice(bosses[k].recent_tweets) = <<>>
         /\ bosses[k].last_seen = Stamps(k, log)[Len(Stamps(k, log))]
         /\ ImagesSeen(k, log) # <<>> =>
              bosses[k].boss.image = ImagesSeen(k, log)[1]
    /\ \A id \in Ids :
         reqs[id].value # <<>> =>
           /\ reqs[id].kind = "GetRecentTweets" => reqs[id].value[1] = <<>>
           /\ reqs[id].kind = "GetBosses" =>
                ReplyNames(id) = Names(SubSeq(log, 1, reqs[id].at))

\* Capacity 0: a boss created without an image, seen again with an image and
\* a later timestamp, and its recent-history query answered after both
C14_Witness ==
  /\ tweet_history_size = 0
  /\ \E id \in Ids :
       LET k == reqs[id].boss_name IN
         /\ reqs[id].kind = "GetRecentTweets"
         /\ reqs[id].at >= 2
         /\ reqs[id].value = << <<>> >>
         /\ k \in DOMAIN bosses
         /\ Len(Sightings(k, log)) >= 2
         /\ Sightings(k, log)[1].image = NoImage
         /\ Stamps(k, log)[1] = 1
         /\ bosses[k].boss.image # NoImage
         /\ bosses[k].last_seen = 2

\* C15: the step that handles a sighting S leaves the entry of the boss of
\* S, whether it was new or existing, with last-seen equal to the timestamp
\* of S.
C15_LastSeenSetBySighting ==
  [][ Len(log') > Len(log) =>
        LET S == log'[Len(log')]
            K == S.tweet.boss_name
        IN /\ K \in DOMAIN bosses'
           /\ bosses'[K].last_seen = S.tweet.created_at ]_vars

\* A boss seen at 1 and then at 2 and a boss seen once, both with the
\* timestamp of their latest sighting
C15_Witness ==
  /\ Len(log) = 3
  /\ \E k, n \in DOMAIN bosses :
       /\ Stamps(k, log) = <<1, 2>>
       /\ bosses[k].last_seen = 2
       /\ Len(Stamps(n, log)) = 1
       /\ bosses[n].last_seen = Stamps(n, log)[1]

\* C16: when the loop has handled the same sighting twice in a row, with a
\* history capacity of 2 or more, the history of its boss holds its tweet at
\* least twice and last-seen is its timestamp, and a recent-history reply
\* computed right after the second time holds it at least twice.
C16_DuplicateIsPushedAgain ==
  tweet_history_size >= 2 =>
    /\ \A n \in 2..Len(log) :
         (n = Len(log) /\ log[n] = log[n - 1]) =>
           LET k == log[n].tweet.boss_name IN
             /\ Count(as_unordered_slice(bosses[k].recent_tweets),
                      log[n].tweet) >= 2
             /\ bosses[k].last_seen = log[n].tweet.created_at
    /\ \A id \in Ids :
         ( /\ reqs[id].kind = "GetRecentTweets"
           /\ reqs[id].value # <<>>
           /\ reqs[id].at >= 2
           /\ log[reqs[id].at] = log[reqs[id].at - 1]
           /\ log[reqs[id].at].tweet.boss_name = reqs[id].boss_name ) =>
         Count(reqs[id].value[1], log[reqs[id].at].tweet) >= 2

\* Capacity 2: a sighting, then another one of the same boss handled twice;
\* the reply holds the second one twice and the first one no more
C16_Witness ==
  /\ tweet_history_size = 2
  /\ Len(log) = 3
  /\ log[1] # log[2]
  /\ log[2] = log[3]
  /\ log[1].tweet.boss_name = log[2].tweet.boss_name
  /\ \E id \in Ids :
       /\ reqs[id].kind = "GetRecentTweets"
       /\ reqs[id].at = 3
       /\ reqs[id].value = << <<log[2].tweet, log[2].tweet>> >>

\* C17: discarding a pending awaitable sends nothing to the loop: the query
\* stays queued with its Sender alive and the driver and the table are as
\* before. The step that dequeues a query whose awaitable was discarded
\* takes it from the head of the mailbox, calls send once, stores no value,
\* and leaves the table unchanged and the driver running.
C17_DiscardedQueryStillRuns ==
  [][ \A id \in Ids :
        /\ ( /\ reqs[id].rx = "held" /\ reqs'[id].rx = "dropped"
             /\ AsyncResult_poll(reqs[id]).t = "NotReady" ) =>
             /\ id \in Queued
             /\ queue' = queue
             /\ reqs'[id].tx = "alive"
             /\ driver' = driver
             /\ bosses' = bosses
        /\ (reqs[id].rx = "dropped" /\ reqs[id].at < 0 /\ reqs'[id].at >= 0) =>
             /\ Head(queue).sender = id
             /\ queue' = Tail(queue)
             /\ reqs'[id].sends = 1
             /\ reqs'[id].tx = "used"
             /\ reqs'[id].value = <<>>
             /\ bosses' = bosses
             /\ driver = "Running"
             /\ driver' = "Running" ]_vars

\* A discarded query that was dequeued without a value, and after it a
\* sighting handled and a later query answered from the table with it
C17_Witness ==
  /\ driver = "Running"
  /\ \E i, j \in Ids :
       /\ reqs[i].rx = "dropped"
       /\ reqs[i].sends = 1
       /\ reqs[i].value = <<>>
       /\ reqs[j].rx = "held"
       /\ reqs[j].at > reqs[i].at
       /\ reqs[j].value # <<>>
       /\ reqs[j].value[1] = Answer(reqs[j], bosses)
       /\ reqs[j].value[1] # Answer(reqs[j], EmptyTable)

\* C18: a step changes the table only by handling a sighting; the step that
\* dequeues a query, for a known or an unknown boss, leaves the whole table
\* as it was, and so does handle_event applied in any state to a list-bosses
\* query, to a recent-history query for any boss or to the ReadError event.
C18_OnlySightingsChangeTable ==
  [][ /\ bosses' # bosses => log' # log
      /\ \A id \in Ids :
           (reqs[id].at < 0 /\ reqs'[id].at >= 0) =>
             bosses' = bosses /\ log' = log
      /\ \A e \in {ReadError}
                  \cup {GetBosses(id) : id \in Ids}
                  \cup {GetRecentTweets(n, id) : n \in BossNames, id \in Ids} :
           handle_event(bosses, tweet_history_size, reqs, e).bosses = bosses
    ]_vars

\* A table with a boss, unchanged since its last sighting, after a
\* list-bosses query and a recent-history query for a boss that was then
\* unknown were both answered
C18_Witness ==
  /\ bosses # EmptyTable
  /\ bosses = Replay(log, tweet_history_size)
  /\ \E i, j \in Ids :
       /\ reqs[i].kind = "GetBosses"
       /\ reqs[i].value # <<>>
       /\ reqs[i].value[1] # {}
       /\ reqs[j].kind = "GetRecentTweets"
       /\ reqs[j].at >= 1
       /\ reqs[j].boss_name \notin Names(SubSeq(log, 1, reqs[j].at))
       /\ reqs[j].boss_name \notin DOMAIN bosses

\* C19: the step that handles a sighting of boss K adds at most the entry of
\* K, leaves every other entry as it was, and in an existing entry of K
\* changes neither name, level nor language, nor an image already present.
C19_SightingTouchesOnlyItsBoss ==
  [][ Len(log') > Len(log) =>
        LET K == log'[Len(log')].tweet.boss_name IN
          /\ DOMAIN bosses' = DOMAIN bosses \cup {K}
          /\ \A k \in DOMAIN bosses \ {K} : bosses'[k] = bosses[k]
          /\ K \in DOMAIN bosses =>
               /\ bosses'[K].boss.name = bosses[K].boss.name
               /\ bosses'[K].boss.level = bosses[K].boss.level
               /\ bosses'[K].boss.language = bosses[K].boss.language
               /\ bosses[K].boss.image # NoImage =>
                    bosses'[K].boss.image = bosses[K].boss.image ]_vars

\* A boss created by an English sighting, then another boss, then a
\* Japanese sighting of the first one: it is still English, and the entry
\* of the other boss is the one of its own sighting
C19_Witness ==
  /\ Len(log) = 3
  /\ log[1].tweet.boss_name = log[3].tweet.boss_name
  /\ log[2].tweet.boss_name # log[1].tweet.boss_name
  /\ log[1].tweet.language = "English"
  /\ log[3].tweet.language = "Japanese"
  /\ bosses[log[1].tweet.boss_name].boss.language = "English"
  /\ bosses[log[1].tweet.boss_name].last_seen = log[3].tweet.created_at
  /\ bosses[log[2].tweet.boss_name] =
       Replay(<<log[2]>>, tweet_history_size)[log[2].tweet.boss_name]

\* C20: no step of a driver with a query in its mailbox completes it, with
\* or without handles left; once the driver has completed normally the
\* mailbox is empty, no handle is left, and every request ever submitted was
\* dequeued and sent its reply by the one send that used its Sender: none is
\* pending and none had its Sender dropped without a reply (Closed).
C20_TerminatesWithMailboxDrained ==
  [][ /\ queue # <<>> => driver' # "Terminated"
      /\ driver' = "Terminated" =>
           /\ queue' = <<>>
           /\ handles' = 0
           /\ \A id \in 1..Len(reqs') :
                /\ reqs'[id].at >= 0
                /\ reqs'[id].sends = 1
                /\ reqs'[id].tx = "used"
                /\ AsyncResult_poll(reqs'[id]).t # "NotReady" ]_vars

\* A driver that completed normally after two queries, both ready with
\* their value, the second one computed later and from a table with a boss
C20_Witness ==
  /\ driver = "Terminated"
  /\ Len(reqs) = 2
  /\ \A id \in Ids : AsyncResult_poll(reqs[id]).t = "Ready"
  /\ reqs[1].at < reqs[2].at
  /\ reqs[2].value[1] # Answer(reqs[2], EmptyTable)

====
